---- MODULE Spec2Model ----
(***************************************************************************)
(* Model of the truck-scaling decision support code:                       *)
(*   scripts/risk_utils.py          risk lookups and the recommendation    *)
(*   scripts/intelligent_scaling.py facility search, ratings loader        *)
(*   scripts/risk_analysis.py       the batch ratings build                *)
(*                                                                         *)
(* Numbers.  Python floats are modelled as exact rationals <<n, d>> with   *)
(* d > 0.  Distances are whole miles, money is in dollars.                *)
(***************************************************************************)
EXTENDS Integers, Sequences, FiniteSets, TLC

VARIABLES
    cat_scales,     \* the facility catalog loaded at start-up
    risk_ratings,   \* the rating tables loaded at start-up
    incidents,      \* the incident workbook the batch build reads
    files,          \* the files the build writes and the loader reads
    pointer,        \* content of data/latest_risk_ratings.txt
    build,          \* the batch build's position and intermediate tables
    call,           \* the operation last invoked, with its arguments
    ret             \* what that operation returned or raised

vars == <<cat_scales, risk_ratings, incidents, files, pointer, build, call, ret>>

----------------------------------------------------------------------------
(* Rational arithmetic standing for Python float arithmetic.               *)

Rat(n, d) == <<n, d>>

RECURSIVE GCD(_, _)
GCD(a, b) == IF b = 0 THEN a ELSE GCD(b, a % b)

\* the same number in lowest terms
Reduce(n, d) ==
    LET g == GCD(IF n < 0 THEN -n ELSE n, d)
    IN  IF g = 0 THEN <<n, d>> ELSE <<n \div g, d \div g>>

RAdd(a, b) == Reduce(a[1] * b[2] + b[1] * a[2], a[2] * b[2])
RDivInt(a, k) == Reduce(a[1], a[2] * k)
RGe(a, b) == a[1] * b[2] >= b[1] * a[2]
RLt(a, b) == a[1] * b[2] < b[1] * a[2]
REq(a, b) == a[1] * b[2] = b[1] * a[2]
RZero == <<0, 1>>

\* granularity of the risk scores drawn as inputs: i stands for i / RiskScale
RiskScale == 20
RiskValues == {Rat(i, RiskScale) : i \in 0..RiskScale}

RSub(a, b) == Reduce(a[1] * b[2] - b[1] * a[2], a[2] * b[2])
RMulInt(a, k) == Reduce(a[1] * k, a[2])
RLe(a, b) == a[1] * b[2] <= b[1] * a[2]

\* float('inf'): with cross-multiplied comparisons <<1, 0>> is above every
\* finite amount and below none
Infinity == <<1, 0>>

\* Python's None, where a tuple or a number is expected
None == <<>>

\* states of the variables a specification does not use
NoCall == [op |-> "none"]
NoRet == [kind |-> "none"]
NoTable == [columns |-> {}, rows |-> <<>>]
NoRatings == [route |-> NoTable, liable |-> NoTable]
NoBuild == [pc |-> "idle"]

----------------------------------------------------------------------------
(* risk_utils.get_risk_recommendation                                      *)

MediumBranchStrict(detour_cost) ==
    IF RLt(detour_cost, Rat(101, 1))
    THEN <<TRUE, "Medium", "Medium risk with reasonable detour cost">>
    ELSE <<FALSE, "Medium", "Medium risk but high detour cost">>

MediumBranch(detour_cost) ==
    IF RLt(detour_cost, Rat(100, 1))
    THEN <<TRUE, "Medium", "Medium risk with reasonable detour cost">>
    ELSE <<FALSE, "Medium", "Medium risk but high detour cost">>

get_risk_recommendation(route_risk_score, liable_party_risk_score, detour_cost) ==
    LET combined_risk == RDivInt(RAdd(route_risk_score, liable_party_risk_score), 2)
    IN  IF RGe(combined_risk, Rat(7, 10))
        THEN <<TRUE, "High", "High risk route and/or liable party history">>
        ELSE IF RGe(combined_risk, Rat(4, 10))
        THEN MediumBranch(detour_cost)
        ELSE <<FALSE, "Low", "Low risk route and liable party history">>

\* detour costs offered to the recommendation, in dollars
CostSamples ==
    {Rat(0, 1), Rat(10, 1), Rat(50, 1), Rat(9999, 100), Rat(100, 1),
     Rat(10001, 100), Rat(500, 1), Rat(1000, 1), Infinity}

\* the call is drawn by Init; Recommend applies the function to it
Recommend ==
    /\ call.op = "get_risk_recommendation"
    /\ ret = NoRet
    /\ ret' = [kind |-> "value",
               value |-> get_risk_recommendation(call.route, call.liable, call.cost)]
    /\ UNCHANGED <<cat_scales, risk_ratings, incidents, files, pointer, build, call>>

InitRecommend ==
    /\ cat_scales = <<>>
    /\ risk_ratings = NoRatings
    /\ incidents = <<>>
    /\ files = <<>>
    /\ pointer = ""
    /\ build = NoBuild
    /\ call \in [op : {"get_risk_recommendation"}, route : RiskValues,
                 liable : RiskValues, cost : CostSamples]
    /\ ret = NoRet

NextRecommend == Recommend

SpecRecommend == InitRecommend /\ [][NextRecommend]_vars

\* C1: get_risk_recommendation is total and returns (True, High) when
\* combined >= 0.7, (True, Medium) when 0.4 <= combined < 0.7 and the cost is
\* below 100, (False, Medium) when 0.4 <= combined < 0.7 and the cost is at
\* least 100, (False, Low) when combined < 0.4; with the four worked examples.
C1_Expected(r, l, c) ==
    LET twice == r[1] + l[1]        \* 2 * combined * RiskScale
    IN  IF 10 * twice >= 14 * RiskScale THEN <<TRUE, "High">>
        ELSE IF 10 * twice >= 8 * RiskScale
        THEN IF (c # Infinity /\ c[1] < 100 * c[2]) THEN <<TRUE, "Medium">> ELSE <<FALSE, "Medium">>
        ELSE <<FALSE, "Low">>

C1_Example(r10, l10, dollars, scale, conf) ==
    (/\ call.route[1] * 10 = r10 * RiskScale
     /\ call.liable[1] * 10 = l10 * RiskScale
     /\ call.cost = Rat(dollars, 1))
    => (ret.value[1] = scale /\ ret.value[2] = conf)

C1_Table ==
    /\ <<ret.value[1], ret.value[2]>> = C1_Expected(call.route, call.liable, call.cost)
    /\ C1_Example(5, 3, 50, TRUE, "Medium")
    /\ C1_Example(5, 3, 500, FALSE, "Medium")
    /\ C1_Example(1, 1, 10, FALSE, "Low")

\* C1 as stated: the table, and (0.9, 0.0, 1000) gives (True, High).
C1_AsStated ==
    ret.kind = "value" =>
        (C1_Table /\ C1_Example(9, 0, 1000, TRUE, "High"))

\* C1 as amended: the table, and (0.9, 0.0, 1000), whose combined risk is
\* 0.45, gives (False, Medium) as the table says.
C1_RecommendationTable ==
    ret.kind = "value" =>
        (C1_Table /\ C1_Example(9, 0, 1000, FALSE, "Medium"))

\* the call (0.9, 0.0, 1000) has returned (False, Medium)
C1_Witness ==
    /\ call.route = Rat(18, RiskScale) /\ call.liable = Rat(0, RiskScale)
    /\ call.cost = Rat(1000, 1)
    /\ ret.kind = "value"
    /\ ret.value[1] = FALSE /\ ret.value[2] = "Medium"

----------------------------------------------------------------------------
(* intelligent_scaling: geometry, detour cost and find_best_cat_scale      *)

CAT_SCALE_COST == 14
DRIVER_BASE_HOURLY == 17
DRIVER_DETOUR_MILE_BONUS == Rat(1, 4)
AVERAGE_SPEED_MPH == 50

Abs(x) == IF x < 0 THEN -x ELSE x

\* geopy's geodesic(a, b).miles on coordinates given in whole miles east and
\* north of a reference point: a metric (symmetric, zero exactly on equal
\* points, triangle inequality)
geodesic(a, b) == Abs(a[1] - b[1]) + Abs(a[2] - b[2])

calculate_detour_cost(ship_from_coords, ship_to_coords, cat_scale_coords) ==
    LET direct_route == geodesic(ship_from_coords, ship_to_coords)
        to_scale == geodesic(ship_from_coords, cat_scale_coords)
        from_scale == geodesic(cat_scale_coords, ship_to_coords)
        route_with_scale == to_scale + from_scale
        detour_distance == route_with_scale - direct_route
        detour_time == Rat(detour_distance, AVERAGE_SPEED_MPH)
        detour_hourly_pay == RMulInt(detour_time, DRIVER_BASE_HOURLY)
        detour_mileage_bonus == RMulInt(DRIVER_DETOUR_MILE_BONUS, detour_distance)
        total_detour_cost ==
            RAdd(RAdd(detour_hourly_pay, detour_mileage_bonus), Rat(CAT_SCALE_COST, 1))
    IN  <<total_detour_cost, detour_distance, detour_hourly_pay, detour_time>>

\* the division raises ZeroDivisionError when the direct route has no length
calculate_path_deviation(point_coords, from_coords, to_coords) ==
    LET route_distance == geodesic(from_coords, to_coords)
        via_point_distance ==
            geodesic(from_coords, point_coords) + geodesic(point_coords, to_coords)
    IN  IF route_distance = 0
        THEN [kind |-> "raise", error |-> "ZeroDivisionError"]
        ELSE [kind |-> "value",
              value |-> Rat(via_point_distance - route_distance, route_distance)]

\* a cap that loosens too far on long routes
MaxDeviationWide(total_distance) ==
    IF total_distance > 500 THEN Rat(30, 100) ELSE Rat(15, 100)

\* lines 127-133: the second test is only reached when the first fails
MaxDeviation(total_distance) ==
    IF total_distance > 500 THEN Rat(20, 100)
    ELSE IF total_distance > 1000 THEN Rat(25, 100)
    ELSE Rat(15, 100)

\* line 136: an absent (None or empty) origin_state selects the whole catalog
StateScales(origin_state) ==
    IF origin_state # ""
    THEN SelectSeq(cat_scales, LAMBDA scale : scale.State = origin_state)
    ELSE cat_scales

ViableEntry(scale, deviation, ship_from_coords, ship_to_coords) ==
    LET cost == calculate_detour_cost(ship_from_coords, ship_to_coords, scale.Coords)
    IN  [scale |-> scale, deviation |-> deviation, detour_cost |-> cost[1],
         distance |-> cost[2], detour_time |-> cost[4], driver_pay |-> cost[3],
         from_origin |-> geodesic(ship_from_coords, scale.Coords)]

\* lines 139-161: the loop over the pool from row i on; a raise in the body
\* ends the loop and the call
RECURSIVE ViableScales(_, _, _, _, _, _)
ViableScales(state_scales, i, viable_scales, ship_from_coords, ship_to_coords, max_deviation) ==
    IF i > Len(state_scales)
    THEN [kind |-> "value", value |-> viable_scales]
    ELSE LET scale == state_scales[i]
             dev == calculate_path_deviation(scale.Coords, ship_from_coords, ship_to_coords)
         IN  IF dev.kind = "raise" THEN dev
             ELSE ViableScales(
                    state_scales, i + 1,
                    IF RLe(dev.value, max_deviation)
                    THEN Append(viable_scales,
                                ViableEntry(scale, dev.value, ship_from_coords, ship_to_coords))
                    ELSE viable_scales,
                    ship_from_coords, ship_to_coords, max_deviation)

\* lines 174-178
Score(entry, route_risk) ==
    RAdd(RAdd(RMulInt(entry.deviation, 100), RDivInt(entry.detour_cost, 50)),
         IF RGe(route_risk, Rat(7, 10)) /\ entry.from_origin <= 100
         THEN RZero
         ELSE Rat(entry.from_origin, 100))

\* a minimum that keeps the last of the entries with the least score
BestScaleLast(viable_scales, route_risk) ==
    LET least(i) == \A j \in 1..Len(viable_scales) :
                        RLe(Score(viable_scales[i], route_risk),
                            Score(viable_scales[j], route_risk))
        last == CHOOSE i \in 1..Len(viable_scales) :
                    least(i) /\ \A j \in (i + 1)..Len(viable_scales) : ~least(j)
    IN  viable_scales[last]

\* line 181: min() keeps the first of the entries with the least score
BestScale(viable_scales, route_risk) ==
    LET least(i) == \A j \in 1..Len(viable_scales) :
                        RLe(Score(viable_scales[i], route_risk),
                            Score(viable_scales[j], route_risk))
        first == CHOOSE i \in 1..Len(viable_scales) :
                     least(i) /\ \A j \in 1..(i - 1) : ~least(j)
    IN  viable_scales[first]

\* the first component of the result is a text: the message, or the facility's
\* label, of which the state and the catalog number are modelled
NoSuitableScale ==
    <<[text |-> "No suitable scale found"], Infinity, None, None, None, None>>

ScaleLabel(scale_data) ==
    [text |-> "scale", State |-> scale_data.State,
     CATScaleNumber |-> scale_data.CATScaleNumber]

\* besides what the call returns or raises, the result records the pools the
\* call went through (`searched`: the origin_state of each pass, "" for the
\* whole catalog) and the cap it applied (`max_deviation`)
RECURSIVE find_best_cat_scale(_, _, _, _)
find_best_cat_scale(ship_from_coords, ship_to_coords, route_risk, origin_state) ==
    LET total_distance == geodesic(ship_from_coords, ship_to_coords)
        max_deviation == MaxDeviation(total_distance)
        state_scales == StateScales(origin_state)
        viable == ViableScales(state_scales, 1, <<>>, ship_from_coords, ship_to_coords,
                               max_deviation)
    IN  IF viable.kind = "raise"
        THEN [kind |-> "raise", error |-> viable.error, searched |-> <<origin_state>>,
              max_deviation |-> max_deviation]
        ELSE IF viable.value = <<>> /\ origin_state # ""
        THEN LET again == find_best_cat_scale(ship_from_coords, ship_to_coords, route_risk, "")
             IN  [again EXCEPT !.searched = <<origin_state>> \o again.searched]
        ELSE IF viable.value = <<>>
        THEN [kind |-> "value", value |-> NoSuitableScale, searched |-> <<origin_state>>,
              max_deviation |-> max_deviation]
        ELSE LET best_scale == BestScale(viable.value, route_risk)
                 scale_data == best_scale.scale
                 final == calculate_detour_cost(ship_from_coords, ship_to_coords,
                                                scale_data.Coords)
             IN  [kind |-> "value",
                  value |-> <<ScaleLabel(scale_data), final[1], scale_data.Coords,
                              final[3], final[4], final[2]>>,
                  searched |-> <<origin_state>>, max_deviation |-> max_deviation]

\* --- the inputs of the facility search ---

MaxCatalog == 2

States == {"MO", "IL"}

\* origins and destinations: routes of 200, 500, 700, 1000 and 1200 miles
RoutePoints == {<<0, 0>>, <<500, 0>>, <<1000, 0>>, <<1200, 0>>}

\* where facilities stand
FacilityPoints ==
    {<<250, 30>>, <<250, 40>>, <<600, 140>>, <<600, 100>>, <<50, 0>>, <<1100, 15>>}

RouteRisks == {Rat(0, 1), Rat(7, 10)}

RECURSIVE SeqsUpTo(_, _)
SeqsUpTo(S, n) ==
    IF n = 0 THEN {<<>>}
    ELSE LET shorter == SeqsUpTo(S, n - 1)
         IN  shorter \cup {Append(q, x) : q \in {r \in shorter : Len(r) = n - 1}, x \in S}

\* a catalog: rows in file order, the catalog number being the row's position
Catalogs ==
    {[i \in 1..Len(q) |-> [CATScaleNumber |-> i, State |-> q[i][1], Coords |-> q[i][2]]] :
        q \in SeqsUpTo(States \X FacilityPoints, MaxCatalog)}

FindBestCatScale ==
    /\ call.op = "find_best_cat_scale"
    /\ ret = NoRet
    /\ ret' = find_best_cat_scale(call.ship_from_coords, call.ship_to_coords,
                                  call.route_risk, call.origin_state)
    /\ UNCHANGED <<cat_scales, risk_ratings, incidents, files, pointer, build, call>>

InitFinder ==
    /\ cat_scales \in Catalogs
    /\ risk_ratings = NoRatings
    /\ incidents = <<>>
    /\ files = <<>>
    /\ pointer = ""
    /\ build = NoBuild
    /\ call \in [op : {"find_best_cat_scale"}, ship_from_coords : RoutePoints,
                 ship_to_coords : RoutePoints, route_risk : RouteRisks,
                 origin_state : States \cup {""}]
    /\ ret = NoRet

NextFinder == FindBestCatScale

SpecFinder == InitFinder /\ [][NextFinder]_vars

\* --- what the claims about the facility search speak of ---

Called == ret # NoRet
DirectMiles == geodesic(call.ship_from_coords, call.ship_to_coords)
FacilityReturned == ret.kind = "value" /\ ret.value[3] # None
NoSuitableReturned == ret.kind = "value" /\ ret.value = NoSuitableScale

\* the stepped cap as the specification words it, in hundredths
SteppedCapPct(miles) == IF miles <= 500 THEN 15 ELSE IF miles <= 1000 THEN 20 ELSE 25

\* the point's path deviation on the call's route is at most pct/100
DeviationWithin(point, pct) ==
    (geodesic(call.ship_from_coords, point) + geodesic(point, call.ship_to_coords)
        - DirectMiles) * 100 <= pct * DirectMiles

InSteppedCap(scale) == DeviationWithin(scale.Coords, SteppedCapPct(DirectMiles))

CatalogRows == {cat_scales[i] : i \in 1..Len(cat_scales)}

\* C2: the cap is 0.15 up to 500 miles, 0.20 above 500 and up to 1000 miles,
\* 0.25 above 1000 miles.
C2_SteppedCap ==
    Called => REq(ret.max_deviation, Rat(SteppedCapPct(DirectMiles), 100))

\* what the code does instead: 0.20 for every route above 500 miles
C2_CapOfTheCode ==
    Called => REq(ret.max_deviation, Rat(IF DirectMiles > 500 THEN 20 ELSE 15, 100))

\* C3: a returned facility's path deviation is at most the stepped cap of the
\* route's distance (0.15 / 0.20 / 0.25), and under 500 miles the cap applied
\* is exactly 0.15.
C3_ResultWithinCap ==
    /\ FacilityReturned =>
          /\ DirectMiles > 0
          /\ DeviationWithin(ret.value[3], SteppedCapPct(DirectMiles))
    /\ (Called /\ DirectMiles < 500) => ret.max_deviation = Rat(15, 100)

\* a facility more than 0.15 off a 1200-mile route has been returned
C3_Witness ==
    /\ FacilityReturned
    /\ DirectMiles = 1200
    /\ ~DeviationWithin(ret.value[3], 15)

\* C4: with an origin_state and a facility of that state within the cap, the
\* returned facility is of that state; with an origin_state and no facility
\* of that state within the cap, the whole catalog is searched exactly once
\* more and that search's result is returned.
C4_RegionalFirst ==
    (Called /\ call.origin_state # "" /\ DirectMiles > 0) =>
        IF \E scale \in CatalogRows : scale.State = call.origin_state /\ InSteppedCap(scale)
        THEN FacilityReturned /\ ret.value[1].State = call.origin_state
        ELSE /\ ret.searched = <<call.origin_state, "">>
             /\ ret.value = find_best_cat_scale(call.ship_from_coords, call.ship_to_coords,
                                                call.route_risk, "").value

\* the same policy with the cap the call applied in place of the stepped cap
RegionalFirstUnderAppliedCap ==
    (Called /\ call.origin_state # "" /\ DirectMiles > 0) =>
        IF \E scale \in CatalogRows :
              /\ scale.State = call.origin_state
              /\ RLe(calculate_path_deviation(scale.Coords, call.ship_from_coords,
                                              call.ship_to_coords).value, ret.max_deviation)
        THEN /\ FacilityReturned /\ ret.value[1].State = call.origin_state
             /\ ret.searched = <<call.origin_state>>
        ELSE /\ ret.searched = <<call.origin_state, "">>
             /\ ret.value = find_best_cat_scale(call.ship_from_coords, call.ship_to_coords,
                                                call.route_risk, "").value

\* C5: 'no suitable facility' is returned, and nothing raised, exactly when no
\* facility of the whole catalog is within the cap, with or without an
\* origin_state and for the empty catalog too; otherwise a facility is
\* returned.  (Routes of no length, where the deviation is undefined, are C6's.)
C5_NoSuitableIffNoneWithinCap ==
    (Called /\ DirectMiles > 0) =>
        /\ ret.kind = "value"
        /\ NoSuitableReturned <=> ~\E scale \in CatalogRows : InSteppedCap(scale)
        /\ FacilityReturned <=> \E scale \in CatalogRows : InSteppedCap(scale)

\* the same with the cap the call applied in place of the stepped cap
NoSuitableIffNoneUnderAppliedCap ==
    (Called /\ DirectMiles > 0) =>
        LET within(scale) ==
                RLe(calculate_path_deviation(scale.Coords, call.ship_from_coords,
                                             call.ship_to_coords).value, ret.max_deviation)
        IN  /\ ret.kind = "value"
            /\ NoSuitableReturned <=> ~\E scale \in CatalogRows : within(scale)
            /\ FacilityReturned <=> \E scale \in CatalogRows : within(scale)

\* C6: a call whose origin equals its destination fails, whatever the
\* catalog: it returns neither a facility nor 'no suitable facility'.
C6_ZeroLengthRouteFails ==
    (Called /\ call.ship_from_coords = call.ship_to_coords) => ret.kind = "raise"

\* what the code does: the failure needs a row to be examined
ZeroLengthRaisesIffCatalogNonEmpty ==
    (Called /\ call.ship_from_coords = call.ship_to_coords) =>
        /\ ret.kind = "raise" <=> cat_scales # <<>>
        /\ ret.kind # "raise" => NoSuitableReturned

\* the rows the pass that produced the result went through, by position
LastPool ==
    LET state == ret.searched[Len(ret.searched)]
    IN  {i \in 1..Len(cat_scales) : state = "" \/ cat_scales[i].State = state}

\* the path deviation of a point on the call's route
DeviationOf(point) ==
    Reduce(geodesic(call.ship_from_coords, point) + geodesic(point, call.ship_to_coords)
               - DirectMiles, DirectMiles)

\* the candidates of that pass: the rows within the cap the pass applied
Candidates == {i \in LastPool : RLe(DeviationOf(cat_scales[i].Coords), ret.max_deviation)}

\* deviation*100 + detour_cost/50 + proximity_term of row i
CandidateScore(i) ==
    LET point == cat_scales[i].Coords
        detour_cost == calculate_detour_cost(call.ship_from_coords, call.ship_to_coords,
                                             point)[1]
        origin_distance == geodesic(call.ship_from_coords, point)
        proximity_term == IF RGe(call.route_risk, Rat(7, 10)) /\ origin_distance <= 100
                          THEN RZero ELSE Rat(origin_distance, 100)
    IN  RAdd(RAdd(RMulInt(DeviationOf(point), 100), RDivInt(detour_cost, 50)), proximity_term)

ReturnedRow == ret.value[1].CATScaleNumber

\* C13: the facility returned is, among the candidates within the cap in the
\* pass that produced the result, one of minimum score, the score being
\* deviation*100 + detour_cost/50 + proximity_term (0 when route_risk >= 0.7
\* and the candidate is at most 100 miles from the origin, else
\* origin_distance/100); of several candidates with that score it is the
\* first in catalog order.
C13_MinimumScoreFirstWins ==
    FacilityReturned =>
        /\ ReturnedRow \in Candidates
        /\ ret.value[3] = cat_scales[ReturnedRow].Coords
        /\ \A j \in Candidates :
              /\ RLe(CandidateScore(ReturnedRow), CandidateScore(j))
              /\ REq(CandidateScore(ReturnedRow), CandidateScore(j)) => ReturnedRow <= j

\* a high-risk route with two candidates of equal score within 100 miles of
\* the origin (proximity_term 0): the first of them is returned
C13_Witness ==
    /\ FacilityReturned
    /\ RGe(call.route_risk, Rat(7, 10))
    /\ geodesic(call.ship_from_coords, ret.value[3]) <= 100
    /\ \E j \in Candidates :
          j > ReturnedRow /\ REq(CandidateScore(ReturnedRow), CandidateScore(j))

\* the candidate returned is not the first of the catalog: the score decides
MinimumScoreNotFirstRow ==
    /\ FacilityReturned
    /\ \E j \in Candidates :
          j < ReturnedRow /\ RLt(CandidateScore(ReturnedRow), CandidateScore(j))

----------------------------------------------------------------------------
(* Texts, rating tables and the files that hold them                       *)

\* a text is a sequence of characters; str.upper() maps each character
UpperChar(c) ==
    CASE c = "a" -> "A" [] c = "c" -> "C" [] c = "k" -> "K" [] c = "m" -> "M"
      [] c = "o" -> "O" [] c = "s" -> "S" [] c = "t" -> "T" [] OTHER -> c

Upper(text) == [i \in 1..Len(text) |-> UpperChar(text[i])]

RouteKeyColumns == {"Ship From City", "Ship From State", "Ship To City", "Ship To State"}
ScoreColumns == {"incident_count", "total_penalties", "risk_score", "risk_rating"}
RouteColumns == RouteKeyColumns \cup ScoreColumns
LiableColumns == {"Liable Party Name"} \cup ScoreColumns

\* cut points that exclude their own value
get_ratingStrictCuts(score) ==
    IF RLt(Rat(7, 10), score) THEN "High"
    ELSE IF RLt(Rat(4, 10), score) THEN "Medium"
    ELSE "Low"

\* risk_analysis.get_rating (lines 65-71)
get_rating(score) ==
    IF RGe(score, Rat(7, 10)) THEN "High"
    ELSE IF RGe(score, Rat(4, 10)) THEN "Medium"
    ELSE "Low"

\* a DataFrame: its column names and its rows, each row a function of the columns
Table(columns, rows) == [columns |-> columns, rows |-> rows]

\* the two sheets the loader reads
RouteSheet == "Route Risk Ratings"
LiableSheet == "Liable Party Risk Ratings"
LossSheet == "Loss Location Risk Ratings"

\* a file: absent, being written, or a workbook of sheets
Absent == [state |-> "absent"]
Partial == [state |-> "partial"]
Workbook(sheets) == [state |-> "complete", sheets |-> sheets]

PointerFileMissing == "<no pointer file>"
BuiltFile == "risk_ratings_2.xlsx"
\* the artifacts of data/, in the order of their names
DataFiles == <<"data/risk_ratings_A.xlsx", "data/risk_ratings_B.xlsx">>
Paths == {BuiltFile} \cup {DataFiles[i] : i \in 1..Len(DataFiles)}

\* pd.read_excel(path, sheet_name=[route, liable]): raises on a file that is
\* not a whole workbook and on a missing sheet
read_excel(path) ==
    LET f == files[path]
    IN  IF f.state = "complete" /\ {RouteSheet, LiableSheet} \subseteq DOMAIN f.sheets
        THEN [kind |-> "value",
              value |-> [route |-> f.sheets[RouteSheet], liable |-> f.sheets[LiableSheet]]]
        ELSE [kind |-> "raise", error |-> "read_excel"]

\* os.path.exists: a file being written exists already
Exists(path) == path \in Paths /\ files[path].state # "absent"

\* lines 42-62; `source` records which file, if any, was opened
get_latest_risk_ratings ==
    LET empty(source) == [ratings |-> NoRatings, source |-> source, failed |-> TRUE]
        load(path) ==
            LET r == read_excel(path)
            IN  IF r.kind = "raise" THEN empty(path)
                ELSE [ratings |-> r.value, source |-> path, failed |-> FALSE]
        risk_files == {i \in 1..Len(DataFiles) : Exists(DataFiles[i])}
    IN  IF pointer = PointerFileMissing THEN empty("")
        ELSE IF Exists(pointer) THEN load(pointer)
        ELSE IF risk_files # {}
        THEN load(DataFiles[CHOOSE i \in risk_files : \A j \in risk_files : j <= i])
        ELSE [ratings |-> NoRatings, source |-> "", failed |-> FALSE]

----------------------------------------------------------------------------
(* risk_utils.calculate_route_risk and calculate_liable_party_risk         *)

\* dict.get(column, default) on a row
Get(row, column, default) == IF column \in DOMAIN row THEN row[column] ELSE default

calculate_route_risk(ship_from_city, ship_from_state, ship_to_city, ship_to_state, risk_ratings_df) ==
    IF ~(RouteKeyColumns \subseteq risk_ratings_df.columns)
    THEN [kind |-> "raise", error |-> "KeyError"]
    ELSE LET route_mask(row) ==
                 /\ Upper(row["Ship From City"]) = Upper(ship_from_city)
                 /\ Upper(row["Ship From State"]) = Upper(ship_from_state)
                 /\ Upper(row["Ship To City"]) = Upper(ship_to_city)
                 /\ Upper(row["Ship To State"]) = Upper(ship_to_state)
             route_data == SelectSeq(risk_ratings_df.rows, route_mask)
         IN  IF route_data # <<>>
             THEN [kind |-> "value",
                   value |-> <<Get(route_data[1], "risk_score", RZero),
                               Get(route_data[1], "risk_rating", "Low")>>]
             ELSE [kind |-> "value", value |-> <<RZero, "Low">>]

calculate_liable_party_risk(liable_party, risk_ratings_df) ==
    IF ~(({"Liable Party Name"} \cup {"incident_count", "total_penalties", "risk_score"})
            \subseteq risk_ratings_df.columns)
    THEN [kind |-> "raise", error |-> "KeyError"]
    ELSE LET party_mask(row) == row["Liable Party Name"] = liable_party
             party_data == SelectSeq(risk_ratings_df.rows, party_mask)
         IN  IF party_data # <<>>
             THEN IF "risk_rating" \in risk_ratings_df.columns
                  THEN [kind |-> "value",
                        value |-> <<party_data[1]["risk_score"], party_data[1]["risk_rating"]>>]
                  ELSE [kind |-> "raise", error |-> "KeyError"]
             ELSE [kind |-> "value", value |-> <<RZero, "Low">>]

\* --- the inputs of the lookups ---

MaxRows == 2

CityNames == {<<"s", "t">>, <<"S", "T">>, <<"S", "t">>, <<"k", "c">>}
StateNames == {<<"m", "o">>, <<"M", "O">>}
PartyNames == {<<"a", "c">>, <<"A", "C">>, <<"A", "c">>, <<"k">>}

RouteRow(from_city, from_state, to_city, to_state, score) ==
    [column \in RouteColumns |->
        CASE column = "Ship From City" -> from_city
          [] column = "Ship From State" -> from_state
          [] column = "Ship To City" -> to_city
          [] column = "Ship To State" -> to_state
          [] column = "incident_count" -> 1
          [] column = "total_penalties" -> 0
          [] column = "risk_score" -> score
          [] column = "risk_rating" -> get_rating(score)]

LiableRow(name, score) ==
    [column \in LiableColumns |->
        CASE column = "Liable Party Name" -> name
          [] column = "incident_count" -> 1
          [] column = "total_penalties" -> 0
          [] column = "risk_score" -> score
          [] column = "risk_rating" -> get_rating(score)]

\* rows a stored route table may hold, in either letter case
RouteRows ==
    {RouteRow(<<"S", "T">>, <<"M", "O">>, <<"K", "C">>, <<"M", "O">>, Rat(8, 10)),
     RouteRow(<<"s", "t">>, <<"m", "o">>, <<"k", "c">>, <<"m", "o">>, Rat(5, 10)),
     RouteRow(<<"k", "c">>, <<"M", "O">>, <<"S", "t">>, <<"M", "O">>, Rat(2, 10))}

LiableRows ==
    {LiableRow(<<"A", "C">>, Rat(9, 10)), LiableRow(<<"a", "c">>, Rat(4, 10)),
     LiableRow(<<"k">>, Rat(1, 10))}

RouteTables == {Table(RouteColumns, rows) : rows \in SeqsUpTo(RouteRows, MaxRows)}
LiableTables == {Table(LiableColumns, rows) : rows \in SeqsUpTo(LiableRows, MaxRows)}

\* the workbooks the start-up may find: both sheets, or the route sheet only
StoredWorkbooks ==
    {Workbook([sheet \in {RouteSheet, LiableSheet} |->
                  IF sheet = RouteSheet THEN rt ELSE lt]) :
        rt \in RouteTables, lt \in LiableTables}
    \cup {Workbook([sheet \in {RouteSheet} |-> rt]) : rt \in RouteTables}

LookupCalls ==
    [op : {"calculate_route_risk"}, ship_from_city : CityNames, ship_from_state : StateNames,
     ship_to_city : CityNames, ship_to_state : StateNames]
    \cup [op : {"calculate_liable_party_risk"}, liable_party : PartyNames]

NotLoaded == [route |-> Table({}, <<>>), liable |-> Table({}, <<>>), loaded |-> FALSE]

\* line 64: the tables are loaded once, at start-up
LoadRatings ==
    /\ "loaded" \in DOMAIN risk_ratings
    /\ risk_ratings' = get_latest_risk_ratings.ratings
    /\ UNCHANGED <<cat_scales, incidents, files, pointer, build, call, ret>>

CalculateRouteRisk ==
    /\ "loaded" \notin DOMAIN risk_ratings
    /\ call.op = "calculate_route_risk"
    /\ ret = NoRet
    /\ ret' = calculate_route_risk(call.ship_from_city, call.ship_from_state,
                                   call.ship_to_city, call.ship_to_state,
                                   risk_ratings.route)
    /\ UNCHANGED <<cat_scales, risk_ratings, incidents, files, pointer, build, call>>

CalculateLiablePartyRisk ==
    /\ "loaded" \notin DOMAIN risk_ratings
    /\ call.op = "calculate_liable_party_risk"
    /\ ret = NoRet
    /\ ret' = calculate_liable_party_risk(call.liable_party, risk_ratings.liable)
    /\ UNCHANGED <<cat_scales, risk_ratings, incidents, files, pointer, build, call>>

InitRisk ==
    /\ cat_scales = <<>>
    /\ risk_ratings = NotLoaded
    /\ incidents = <<>>
    /\ pointer \in {PointerFileMissing, DataFiles[1]}
    /\ \E stored \in StoredWorkbooks \cup {Absent} :
          files = [path \in Paths |-> IF path = DataFiles[1] THEN stored ELSE Absent]
    /\ build = NoBuild
    /\ call \in LookupCalls
    /\ ret = NoRet

NextRisk == LoadRatings \/ CalculateRouteRisk \/ CalculateLiablePartyRisk

SpecRisk == InitRisk /\ [][NextRisk]_vars

\* --- what the claims about the lookups speak of ---

SameButCase(a, b) == Upper(a) = Upper(b)

RouteCallsLike(c) ==
    {d \in LookupCalls :
        /\ d.op = "calculate_route_risk"
        /\ SameButCase(d.ship_from_city, c.ship_from_city)
        /\ SameButCase(d.ship_from_state, c.ship_from_state)
        /\ SameButCase(d.ship_to_city, c.ship_to_city)
        /\ SameButCase(d.ship_to_state, c.ship_to_state)}

RouteLookupCaseInsensitive ==
    (Called /\ call.op = "calculate_route_risk") =>
        \A d \in RouteCallsLike(call) :
            calculate_route_risk(d.ship_from_city, d.ship_from_state, d.ship_to_city,
                                 d.ship_to_state, risk_ratings.route) = ret

LiableLookupCaseInsensitive ==
    (Called /\ call.op = "calculate_liable_party_risk") =>
        \A name \in PartyNames :
            SameButCase(name, call.liable_party) =>
                calculate_liable_party_risk(name, risk_ratings.liable) = ret

\* C7: both lookups return the same (score, rating) for queries that differ
\* only in letter case, whatever the case of the stored rows.
C7_LookupsCaseInsensitive == RouteLookupCaseInsensitive /\ LiableLookupCaseInsensitive

\* no stored row is the call's route or party, letter case set aside
NoMatchingRow ==
    IF call.op = "calculate_route_risk"
    THEN \A i \in 1..Len(risk_ratings.route.rows) :
            LET row == risk_ratings.route.rows[i]
            IN  ~(/\ SameButCase(row["Ship From City"], call.ship_from_city)
                  /\ SameButCase(row["Ship From State"], call.ship_from_state)
                  /\ SameButCase(row["Ship To City"], call.ship_to_city)
                  /\ SameButCase(row["Ship To State"], call.ship_to_state))
    ELSE \A i \in 1..Len(risk_ratings.liable.rows) :
            ~SameButCase(risk_ratings.liable.rows[i]["Liable Party Name"], call.liable_party)

\* C8: without a matching row, and with an empty table above all, both
\* lookups return (0.0, 'Low') and do not raise.
C8_DefaultWhenNoMatch ==
    (Called /\ NoMatchingRow) => ret = [kind |-> "value", value |-> <<RZero, "Low">>]

\* what the code does: the default needs a table that has its columns
DefaultWhenNoMatchAndColumns ==
    (Called /\ NoMatchingRow) =>
        IF risk_ratings = NoRatings
        THEN ret = [kind |-> "raise", error |-> "KeyError"]
        ELSE ret = [kind |-> "value", value |-> <<RZero, "Low">>]

----------------------------------------------------------------------------
(* risk_analysis.calculate_risk_ratings: the computation                   *)

\* an incident row; a missing number (NaN) is <<>>, a number v is <<v>>
Incident(cause, expense, incurred, loss, route, party) ==
    [cause |-> cause, expense |-> expense, incurred |-> incurred,
     loss |-> loss, route |-> route, party |-> party, weight |-> 40]

\* fillna(0)
FillNa(x) == IF x = <<>> THEN 0 ELSE x[1]

\* lines 14-25: the cleaned and filtered rows, with total_penalties
FilteredRows(df) ==
    LET clean(r) ==
            [cause |-> r.cause, loss |-> r.loss, route |-> r.route, party |-> r.party,
             weight |-> r.weight, expense |-> FillNa(r.expense),
             incurred |-> FillNa(r.incurred), total_penalties |-> FillNa(r.expense)]
        mask(r) == r.cause = "overweight" \/ r.expense > 0 \/ r.incurred > 0
    IN  SelectSeq([i \in 1..Len(df) |-> clean(df[i])], mask)

RECURSIVE Sum(_)
Sum(numbers) == IF numbers = <<>> THEN 0 ELSE Head(numbers) + Sum(Tail(numbers))

RECURSIVE RSum(_)
RSum(numbers) == IF numbers = <<>> THEN RZero ELSE RAdd(Head(numbers), RSum(Tail(numbers)))

Min(S) == CHOOSE x \in S : \A y \in S : x <= y
Max(S) == CHOOSE x \in S : \A y \in S : y <= x

\* a scaler that divides by the range as it is
MinMaxNoZeroGuard(x, column) ==
    Reduce(x - Min(column), Max(column) - Min(column))

\* sklearn MinMaxScaler().fit_transform on one column: (x - min) * scale with
\* scale = 1 / (max - min), a zero range being replaced by 1
MinMaxScale(x, column) ==
    LET data_min == Min(column)
        data_range == Max(column) - data_min
        handled == IF data_range = 0 THEN 1 ELSE data_range
    IN  Reduce(x - data_min, handled)

\* sort_values('risk_score', ascending=False): rows of equal score keep their order
RECURSIVE SortByScore(_)
SortByScore(rows) ==
    IF rows = <<>> THEN <<>>
    ELSE LET rest == SortByScore(Tail(rows))
             before == SelectSeq(rest, LAMBDA r : RLt(Head(rows)["risk_score"], r["risk_score"]))
             after == SelectSeq(rest, LAMBDA r : ~RLt(Head(rows)["risk_score"], r["risk_score"]))
         IN  before \o <<Head(rows)>> \o after

\* the grouping keys, in the order groupby sorts them
LossKeys == <<<<"k", "c">>, <<"s", "p">>, <<"s", "t">>>>
RouteKeys ==
    <<<<<<"S", "T">>, <<"M", "O">>, <<"K", "C">>, <<"M", "O">>>>,
      <<<<"k", "c">>, <<"M", "O">>, <<"S", "t">>, <<"M", "O">>>>,
      <<<<"s", "t">>, <<"m", "o">>, <<"k", "c">>, <<"m", "o">>>>>>
PartyKeys == <<<<"A", "C">>, <<"a", "c">>, <<"k">>>>

LossColumns == {"Loss Location"}
NormColumns == {"avg_gross_weight", "count_norm", "penalties_norm"}

\* a row of a rating table
RatingRow(group, key, agg, count_norm, penalties_norm, risk_score) ==
    [column \in (IF group = "Routes" THEN RouteColumns \cup {"avg_loss_location_risk"}
                 ELSE IF group = "Liable Parties" THEN LiableColumns
                 ELSE LossColumns \cup ScoreColumns) \cup NormColumns |->
        CASE column = "Ship From City" -> key[1]
          [] column = "Ship From State" -> key[2]
          [] column = "Ship To City" -> key[3]
          [] column = "Ship To State" -> key[4]
          [] column \in {"Liable Party Name", "Loss Location"} -> key
          [] column = "incident_count" -> agg.incident_count
          [] column = "total_penalties" -> agg.total_penalties
          [] column = "avg_gross_weight" -> agg.avg_gross_weight
          [] column = "avg_loss_location_risk" -> agg.avg_loss_location_risk
          [] column = "count_norm" -> count_norm
          [] column = "penalties_norm" -> penalties_norm
          [] column = "risk_score" -> risk_score
          [] column = "risk_rating" -> get_rating(risk_score)]

\* lines 27-74; filtered_df's rows carry risk_score when the routes are grouped
process_group(group, filtered_df) ==
    LET keys == IF group = "Routes" THEN RouteKeys
                ELSE IF group = "Liable Parties" THEN PartyKeys ELSE LossKeys
        key_of(r) == IF group = "Routes" THEN r.route
                     ELSE IF group = "Liable Parties" THEN r.party ELSE r.loss
        members(k) == SelectSeq(filtered_df, LAMBDA r : key_of(r) = k)
        present == SelectSeq(keys, LAMBDA k : members(k) # <<>>)
        agg(k) ==
            [incident_count |-> Len(members(k)),
             total_penalties |-> Sum([i \in 1..Len(members(k)) |-> members(k)[i].total_penalties]),
             avg_gross_weight |->
                 Reduce(Sum([i \in 1..Len(members(k)) |-> members(k)[i].weight]),
                        Len(members(k))),
             avg_loss_location_risk |->
                 IF group = "Routes"
                 THEN RDivInt(RSum([i \in 1..Len(members(k)) |-> members(k)[i].risk_score]),
                              Len(members(k)))
                 ELSE RZero]
        counts == {agg(present[i]).incident_count : i \in 1..Len(present)}
        penalties == {agg(present[i]).total_penalties : i \in 1..Len(present)}
        row(k) ==
            LET a == agg(k)
                count_norm == MinMaxScale(a.incident_count, counts)
                penalties_norm == MinMaxScale(a.total_penalties, penalties)
                risk_score ==
                    IF group = "Routes"
                    THEN RDivInt(RAdd(RAdd(count_norm, penalties_norm),
                                      a.avg_loss_location_risk), 3)
                    ELSE RDivInt(RAdd(count_norm, penalties_norm), 2)
            IN  RatingRow(group, k, a, count_norm, penalties_norm, risk_score)
    IN  IF present = <<>>
        THEN NoTable
        ELSE Table(DOMAIN row(present[1]),
                   SortByScore([i \in 1..Len(present) |-> row(present[i])]))

\* a merge that brings back the locations' incident counts instead of their scores
MergeLossCount(filtered_df, loss_location_risk) ==
    LET count(r) ==
            LET hits == SelectSeq(loss_location_risk.rows,
                                  LAMBDA g : g["Loss Location"] = r.loss)
            IN  IF hits = <<>> THEN RZero ELSE Rat(hits[1]["incident_count"], 1)
    IN  [i \in 1..Len(filtered_df) |->
            [cause |-> filtered_df[i].cause, loss |-> filtered_df[i].loss,
             route |-> filtered_df[i].route, party |-> filtered_df[i].party,
             weight |-> filtered_df[i].weight, expense |-> filtered_df[i].expense,
             incurred |-> filtered_df[i].incurred,
             total_penalties |-> filtered_df[i].total_penalties,
             risk_score |-> count(filtered_df[i])]]

\* lines 78-91: the loss-location scores merged back into the rows
MergeLossRisk(filtered_df, loss_location_risk) ==
    LET score(r) ==
            LET hits == SelectSeq(loss_location_risk.rows,
                                  LAMBDA g : g["Loss Location"] = r.loss)
            IN  IF hits = <<>> THEN RZero ELSE hits[1]["risk_score"]
    IN  [i \in 1..Len(filtered_df) |->
            [cause |-> filtered_df[i].cause, loss |-> filtered_df[i].loss,
             route |-> filtered_df[i].route, party |-> filtered_df[i].party,
             weight |-> filtered_df[i].weight, expense |-> filtered_df[i].expense,
             incurred |-> filtered_df[i].incurred,
             total_penalties |-> filtered_df[i].total_penalties,
             risk_score |-> score(filtered_df[i])]]

\* lines 11-99: the three tables computed from the workbook's rows
RatingTables(df) ==
    LET filtered_df == FilteredRows(df)
        loss_location_risk == process_group("Loss Locations", filtered_df)
        merged == MergeLossRisk(filtered_df, loss_location_risk)
    IN  [loss |-> loss_location_risk,
         route |-> process_group("Routes", merged),
         liable |-> process_group("Liable Parties", merged)]

\* lines 102-108: the sheets written, one per table that has rows
SheetsOf(tables) ==
    LET names == {n \in {RouteSheet, LiableSheet, LossSheet} :
                     (CASE n = RouteSheet -> tables.route
                        [] n = LiableSheet -> tables.liable
                        [] n = LossSheet -> tables.loss).rows # <<>>}
    IN  [n \in names |-> CASE n = RouteSheet -> tables.route
                           [] n = LiableSheet -> tables.liable
                           [] n = LossSheet -> tables.loss]

\* --- the inputs of the build ---

MaxIncidents == 3

\* where an incident happened, on which route, and who is liable
IncidentKinds ==
    <<<<LossKeys[1], RouteKeys[1], PartyKeys[1]>>, <<LossKeys[2], RouteKeys[2], PartyKeys[2]>>,
      <<LossKeys[3], RouteKeys[3], PartyKeys[3]>>, <<LossKeys[2], RouteKeys[1], PartyKeys[1]>>>>

\* cause, Total Expense, Total Incurred
IncidentProfiles ==
    <<<<"other", <<0>>, <<0>>>>, <<"overweight", <<>>, <<>>>>, <<"other", <<1>>, <<1>>>>,
      <<"other", <<3>>, <<0>>>>, <<"other", <<>>, <<2>>>>>>

\* the rows a workbook may hold, numbered
IncidentRowCount == Len(IncidentProfiles) * Len(IncidentKinds)
IncidentRowAt(n) ==
    LET p == IncidentProfiles[((n - 1) \div Len(IncidentKinds)) + 1]
        k == IncidentKinds[((n - 1) % Len(IncidentKinds)) + 1]
    IN  Incident(p[1], p[2], p[3], k[1], k[2], k[3])

\* the non-decreasing sequences over 1..n of length at most len
RECURSIVE SortedSeqs(_, _)
SortedSeqs(n, len) ==
    IF len = 0 THEN {<<>>}
    ELSE LET shorter == SortedSeqs(n, len - 1)
         IN  shorter \cup
             UNION {{Append(q, x) : x \in {y \in 1..n : q = <<>> \/ q[Len(q)] <= y}} :
                       q \in {r \in shorter : Len(r) = len - 1}}

\* the workbooks drawn: the tables do not depend on the order of the rows
\* (every aggregate is a count, a sum or a mean per key), so each collection
\* of rows is drawn in one order
IncidentTables ==
    {[i \in 1..Len(q) |-> IncidentRowAt(q[i])] : q \in SortedSeqs(IncidentRowCount, MaxIncidents)}

Readable(rows) == [readable |-> TRUE, rows |-> rows]
Unreadable == [readable |-> FALSE, rows |-> <<>>]

\* the build run as a whole: an unreadable workbook fails it at line 11;
\* otherwise the tables are computed and the sheets saved.  With no sheet to
\* save, the engine in use either refuses (the opened file is left as it is)
\* or saves a workbook without rating sheets.
CalculateRiskRatings ==
    /\ build.pc = "idle"
    /\ IF ~incidents.readable
       THEN build' = [pc |-> "failed"] /\ UNCHANGED files
       ELSE LET tables == RatingTables(incidents.rows)
            IN  \E saved \in {TRUE} \cup {DOMAIN SheetsOf(tables) # {}} :
                    /\ build' = [pc |-> IF saved THEN "done" ELSE "failed", tables |-> tables]
                    /\ files' = [files EXCEPT ![BuiltFile] =
                                     IF saved THEN Workbook(SheetsOf(tables)) ELSE Partial]
    /\ UNCHANGED <<cat_scales, risk_ratings, incidents, pointer, call, ret>>

InitRatings ==
    /\ cat_scales = <<>>
    /\ risk_ratings = NoRatings
    /\ incidents \in {Readable(rows) : rows \in IncidentTables} \cup {Unreadable}
    /\ files = [path \in Paths |-> Absent]
    /\ pointer = PointerFileMissing
    /\ build = NoBuild
    /\ call = NoCall
    /\ ret = NoRet

NextRatings == CalculateRiskRatings

SpecRatings == InitRatings /\ [][NextRatings]_vars

\* --- what the claims about the rating tables speak of ---

BuiltTables == {build.tables.loss, build.tables.route, build.tables.liable}

RowsOf(table) == {table.rows[i] : i \in 1..Len(table.rows)}

ColumnValues(table, column) == {r[column] : r \in RowsOf(table)}

\* norm is (x - min) / (max - min) of the column, and 0 when max = min
IsMinMaxOf(norm, x, column) ==
    /\ norm[2] > 0
    /\ 0 <= norm[1] /\ norm[1] <= norm[2]
    /\ IF Max(column) = Min(column)
       THEN norm[1] = 0
       ELSE norm[1] * (Max(column) - Min(column)) = (x - Min(column)) * norm[2]

\* C10: in every rating table of a build, count_norm and penalties_norm are
\* (x - min) / (max - min) over the table's rows and lie in [0,1]; a metric
\* with max = min is normalized to 0 in every row, with no division by zero.
C10_NormalizedComponents ==
    build.pc = "done" =>
        \A table \in BuiltTables : \A r \in RowsOf(table) :
            /\ IsMinMaxOf(r["count_norm"], r["incident_count"],
                          ColumnValues(table, "incident_count"))
            /\ IsMinMaxOf(r["penalties_norm"], r["total_penalties"],
                          ColumnValues(table, "total_penalties"))

\* a liable-party table of three rows with one incident each (count_norm 0
\* throughout) and a penalties_norm strictly between 0 and 1
C10_Witness ==
    /\ build.pc = "done"
    /\ Len(build.tables.liable.rows) = 3
    /\ \A r \in RowsOf(build.tables.liable) :
          r["incident_count"] = 1 /\ r["count_norm"] = RZero
    /\ \E r \in RowsOf(build.tables.liable) :
          RLt(RZero, r["penalties_norm"]) /\ RLt(r["penalties_norm"], Rat(1, 1))

\* x lies in [0,1]
InUnitInterval(x) == RLe(RZero, x) /\ RLe(x, Rat(1, 1))

\* the rows of the workbook that pass the filter and belong to the route
IncidentsOfRoute(key) ==
    SelectSeq(FilteredRows(incidents.rows), LAMBDA r : r.route = key)

\* the score the loss-location table gives the place of an incident
LossScoreOf(r) ==
    LET hits == {g \in RowsOf(build.tables.loss) : g["Loss Location"] = r.loss}
    IN  IF hits = {} THEN RZero ELSE (CHOOSE g \in hits : TRUE)["risk_score"]

RouteKeyOf(row) ==
    <<row["Ship From City"], row["Ship From State"], row["Ship To City"], row["Ship To State"]>>

\* avg is the mean of the loss-location scores of the route's incidents
IsMeanLossRisk(avg, key) ==
    LET mine == IncidentsOfRoute(key)
    IN  REq(RMulInt(avg, Len(mine)), RSum([i \in 1..Len(mine) |-> LossScoreOf(mine[i])]))

\* C11: in every rating table of a build risk_score lies in [0,1]; a route
\* row's score is a third of count_norm + penalties_norm + the mean
\* loss-location score of the route's incidents, a liable-party row's and a
\* loss-location row's score is half of count_norm + penalties_norm.
C11_ScoreInUnitInterval ==
    build.pc = "done" =>
        /\ \A table \in BuiltTables : \A r \in RowsOf(table) : InUnitInterval(r["risk_score"])
        /\ \A r \in RowsOf(build.tables.route) :
              /\ IsMeanLossRisk(r["avg_loss_location_risk"], RouteKeyOf(r))
              /\ REq(RMulInt(r["risk_score"], 3),
                     RAdd(RAdd(r["count_norm"], r["penalties_norm"]),
                          r["avg_loss_location_risk"]))
        /\ \A table \in {build.tables.liable, build.tables.loss} : \A r \in RowsOf(table) :
              REq(RMulInt(r["risk_score"], 2), RAdd(r["count_norm"], r["penalties_norm"]))

\* two routes, the busier one through a place of two incidents: its row has
\* both components at 1 and a positive mean loss-location score
C11_Witness ==
    /\ build.pc = "done"
    /\ Len(build.tables.route.rows) = 2
    /\ build.tables.liable.rows # <<>>
    /\ \E r \in RowsOf(build.tables.route) :
          /\ r["incident_count"] = 2
          /\ r["count_norm"] = Rat(1, 1) /\ r["penalties_norm"] = Rat(1, 1)
          /\ RLt(RZero, r["avg_loss_location_risk"])

Ratings == <<"Low", "Medium", "High">>

RatingRank(rating) == CHOOSE i \in 1..3 : Ratings[i] = rating

\* the rating the cut points 0.4 and 0.7 give a score
RatingAtCuts(score, rating) ==
    /\ rating \in {"Low", "Medium", "High"}
    /\ rating = "High" <=> RGe(score, Rat(7, 10))
    /\ rating = "Medium" <=> RGe(score, Rat(4, 10)) /\ RLt(score, Rat(7, 10))
    /\ rating = "Low" <=> RLt(score, Rat(4, 10))

BuiltRows == UNION {RowsOf(table) : table \in BuiltTables}

\* C12: in every rating table of a build risk_rating is 'High' iff the row's
\* score is >= 0.7, 'Medium' iff it is in [0.4, 0.7) and 'Low' iff it is
\* below 0.4; rows of equal score have equal ratings and a higher score never
\* has a lower rating, across all tables; the function applied has these cut
\* points at every score of the scale, 0.4 and 0.7 included.
C12_RatingByFixedCuts ==
    /\ \A score \in RiskValues : RatingAtCuts(score, get_rating(score))
    /\ build.pc = "done" =>
          /\ \A r \in BuiltRows : RatingAtCuts(r["risk_score"], r["risk_rating"])
          /\ \A r, q \in BuiltRows :
                RLe(r["risk_score"], q["risk_score"]) =>
                    RatingRank(r["risk_rating"]) <= RatingRank(q["risk_rating"])

\* one build whose tables hold a 'High', a 'Medium' and a 'Low' row
C12_Witness ==
    /\ build.pc = "done"
    /\ {r["risk_rating"] : r \in BuiltRows} = {"Low", "Medium", "High"}

----------------------------------------------------------------------------
(* The build step by step, beside a start-up of the application that loads *)
(* the ratings (intelligent_scaling.get_latest_risk_ratings)               *)

\* workbooks the build may be given: unreadable, without a relevant row, with
\* relevant rows
BuildInputs ==
    {Unreadable,
     Readable(<<IncidentRowAt(1)>>),
     Readable(<<IncidentRowAt(6), IncidentRowAt(11), IncidentRowAt(16)>>)}

\* an artifact of an earlier build
OldWorkbook ==
    Workbook([sheet \in {RouteSheet, LiableSheet} |->
                 IF sheet = RouteSheet
                 THEN Table(RouteColumns,
                            <<RouteRow(<<"S", "T">>, <<"M", "O">>, <<"K", "C">>, <<"M", "O">>,
                                       Rat(8, 10))>>)
                 ELSE Table(LiableColumns, <<LiableRow(<<"A", "C">>, Rat(9, 10))>>)])

\* line 11: reading the workbook fails the run, or lines 14-99 compute the tables
BuildStart ==
    /\ build.pc = "idle"
    /\ build' = IF incidents.readable
                THEN [pc |-> "computed", tables |-> RatingTables(incidents.rows)]
                ELSE [pc |-> "failed"]
    /\ UNCHANGED <<cat_scales, risk_ratings, incidents, files, pointer, call, ret>>

\* line 102: the writer opens the output file, which is from now on no workbook
BuildOpenWriter ==
    /\ build.pc = "computed"
    /\ files' = [files EXCEPT ![BuiltFile] = Partial]
    /\ build' = [build EXCEPT !.pc = "writing"]
    /\ UNCHANGED <<cat_scales, risk_ratings, incidents, pointer, call, ret>>

\* lines 103-110: leaving the `with` block saves the sheets written
BuildCloseWriter ==
    /\ build.pc = "writing"
    /\ DOMAIN SheetsOf(build.tables) # {}
    /\ files' = [files EXCEPT ![BuiltFile] = Workbook(SheetsOf(build.tables))]
    /\ build' = [build EXCEPT !.pc = "done"]
    /\ UNCHANGED <<cat_scales, risk_ratings, incidents, pointer, call, ret>>

\* the same with no sheet written: the engine in use either refuses to save a
\* workbook without a sheet, or saves one
BuildCloseWriterNoSheet ==
    /\ build.pc = "writing"
    /\ DOMAIN SheetsOf(build.tables) = {}
    /\ \/ /\ build' = [pc |-> "failed"]
          /\ UNCHANGED files
       \/ /\ build' = [build EXCEPT !.pc = "done"]
          /\ files' = [files EXCEPT ![BuiltFile] = Workbook(SheetsOf(build.tables))]
    /\ UNCHANGED <<cat_scales, risk_ratings, incidents, pointer, call, ret>>

\* line 112: the script is run again on a refreshed workbook
BuildAgain ==
    /\ build.pc \in {"done", "failed"}
    /\ build' = NoBuild
    /\ incidents' \in BuildInputs
    /\ UNCHANGED <<cat_scales, risk_ratings, files, pointer, call, ret>>

\* line 64: a start-up of the application resolves 'latest'
GetLatestRiskRatings ==
    /\ LET r == get_latest_risk_ratings
       IN  /\ risk_ratings' = r.ratings
           /\ ret' = [kind |-> "loaded", source |-> r.source, failed |-> r.failed,
                      state |-> IF r.source = "" THEN "none" ELSE files[r.source].state]
    /\ call' = [op |-> "get_latest_risk_ratings"]
    /\ UNCHANGED <<cat_scales, incidents, files, pointer, build>>

InitBuild ==
    /\ cat_scales = <<>>
    /\ risk_ratings = NoRatings
    /\ incidents \in BuildInputs
    /\ files \in [Paths -> {Absent, OldWorkbook}]
    /\ pointer \in {PointerFileMissing, "data/risk_ratings_gone.xlsx"} \cup Paths
    /\ build = NoBuild
    /\ call = NoCall
    /\ ret = NoRet

NextBuild ==
    \/ BuildStart
    \/ BuildOpenWriter
    \/ BuildCloseWriter
    \/ BuildCloseWriterNoSheet
    \/ BuildAgain
    \/ GetLatestRiskRatings

SpecBuild == InitBuild /\ [][NextBuild]_vars

WroteSheets == build.pc = "done" /\ DOMAIN SheetsOf(build.tables) # {}

\* C9: a build's last visible effect is the update of the 'latest' pointer,
\* made only on success and after the tables are completely written: a build
\* that has finished writing its tables has pointed 'latest' at the artifact
\* it wrote.
C9_PointerPublishedLast == WroteSheets => pointer = BuiltFile

\* C9's last part: a reader resolving 'latest' never opens an artifact that is
\* being written.  It fails too: the build overwrites its artifact in place.
ReaderNeverOpensPartial == ret.kind = "loaded" => ret.state # "partial"

\* what the code does: no step of a build writes the pointer
BuildNeverWritesPointer == [][pointer' = pointer]_vars

\* --- what the claim about resolving 'latest' speaks of ---

\* the stored risk_ratings_* artifacts, and the one of the greatest name
StoredArtifacts == {DataFiles[i] : i \in {j \in 1..Len(DataFiles) : Exists(DataFiles[j])}}

GreatestArtifact ==
    DataFiles[CHOOSE i \in 1..Len(DataFiles) :
                 /\ Exists(DataFiles[i])
                 /\ \A j \in 1..Len(DataFiles) : Exists(DataFiles[j]) => j <= i]

PointerNamesArtifact == pointer # PointerFileMissing /\ Exists(pointer)

\* the file 'latest' resolves to: the pointer's when the pointer file exists
\* and names an existing artifact, else the stored artifact of the greatest name
LatestArtifact ==
    IF PointerNamesArtifact THEN pointer
    ELSE IF StoredArtifacts # {} THEN GreatestArtifact
    ELSE ""

\* a start-up has opened LatestArtifact, and has empty tables only when there
\* is no artifact or reading it failed
ResolvedAsLatest ==
    /\ ret'.source = LatestArtifact
    /\ risk_ratings' = NoRatings =>
          LatestArtifact = "" \/ read_excel(LatestArtifact).kind = "raise"

\* C14: a start-up loads the artifact the pointer names when the pointer file
\* exists and names an existing artifact; with a stale pointer or no pointer
\* file it loads the stored risk_ratings_* artifact of the greatest name; the
\* tables are empty only when no artifact exists or loading fails.
C14_LatestResolution == [][GetLatestRiskRatings => ResolvedAsLatest]_vars

\* what the code does: with a pointer file the resolution is as above
LatestResolutionWithPointerFile ==
    [][GetLatestRiskRatings /\ pointer # PointerFileMissing => ResolvedAsLatest]_vars

\* and without one no artifact is opened, whatever is stored
NoPointerFileGivesEmptyTables ==
    [][GetLatestRiskRatings /\ pointer = PointerFileMissing =>
           ret'.source = "" /\ ret'.failed /\ risk_ratings' = NoRatings]_vars

----------------------------------------------------------------------------
(* A query: the "Analyze Risk" handler of intelligent_scaling.py, lines     *)
(* 222-356, step by step.  `call` holds the three fields entered, `ret`    *)
(* the handler's position, its locals, the functions it has called so far  *)
(* and what it has shown.                                                   *)

\* str.split(", "): the parts of text between the separators
RECURSIVE Split(_, _)
Split(text, part) ==
    IF text = <<>> THEN <<part>>
    ELSE IF Len(text) >= 2 /\ text[1] = "," /\ text[2] = " "
    THEN <<part>> \o Split(SubSeq(text, 3, Len(text)), <<>>)
    ELSE Split(Tail(text), Append(part, Head(text)))

\* the State value a text spells
StateOf(text) ==
    CASE text = <<"M", "O">> -> "MO"
      [] text = <<"I", "L">> -> "IL"
      [] text = <<>> -> ""
      [] OTHER -> "other"

\* the fields entered
ShipFromInputs ==
    {<<>>, <<"S", "T">>, <<"S", "T", ",", " ", "M", "O">>, <<"s", "t", ",", " ", "m", "o">>}
ShipToInputs ==
    {<<"K", "C", ",", " ", "M", "O">>, <<"S", "T", ",", " ", "M", "O">>,
     <<"S", "P", ",", " ", "I", "L">>, <<"K", "C", ",", " ", "M", "O", ",", " ", "U", "S">>}
LiablePartyInputs == {<<>>, <<"A", "C">>, <<"k">>}

\* where the geocoder places a location it knows
Place(location_str) ==
    CASE Upper(location_str) = <<"S", "T", ",", " ", "M", "O">> -> <<0, 0>>
      [] Upper(location_str) = <<"K", "C", ",", " ", "M", "O">> -> <<500, 0>>
      [] Upper(location_str) = <<"S", "P", ",", " ", "I", "L">> -> <<1000, 0>>
      [] OTHER -> None

\* lines 69-79: what get_coordinates may return for a location: the place
\* found, or None when the geocoder finds nothing or fails
get_coordinates(location_str) == {Place(location_str), None}

\* the catalogs, the rating tables and the incident data a query runs against
QueryCatalogs ==
    {<<>>} \cup
    {<<[CATScaleNumber |-> 1, State |-> state, Coords |-> point]>> :
        state \in States, point \in {<<250, 30>>, <<600, 140>>}}

QueryRatings ==
    {NoRatings,
     [route |-> OldWorkbook.sheets[RouteSheet], liable |-> OldWorkbook.sheets[LiableSheet]]}

QueryIncidentData == {Readable(<<IncidentRowAt(1)>>), Unreadable}

NotRun ==
    [kind |-> "query", pc |-> "submitted", calls |-> <<>>, parts |-> None,
     ship_from_coords |-> None, ship_to_coords |-> None, route_risk |-> None,
     liable_risk |-> None, found |-> None, recommendation |-> None,
     shown |-> "", error |-> ""]

RequiredFieldsMessage == "Please enter all required fields."
CoordinatesMessage == "Could not determine coordinates for one of the provided locations."
StopMessage == "Recommendation: Stop at cat scale"
SkipMessage == "Recommendation: Skip scaling"

Raised(error) == [ret EXCEPT !.pc = "raised", !.error = error]
Stopped(message) == [ret EXCEPT !.pc = "stopped", !.shown = message]

QueryUnchanged == UNCHANGED <<cat_scales, risk_ratings, incidents, files, pointer, build, call>>

\* lines 222-227: the button is pressed; an empty field ends the query with a
\* message, a field that does not split in two raises at the unpacking
Submit ==
    /\ ret.pc = "submitted"
    /\ LET from_parts == Split(call.ship_from, <<>>)
           to_parts == Split(call.ship_to, <<>>)
       IN  ret' = IF call.ship_from = <<>> \/ call.ship_to = <<>> \/ call.liable_party = <<>>
                  THEN Stopped(RequiredFieldsMessage)
                  ELSE IF Len(from_parts) # 2 \/ Len(to_parts) # 2
                  THEN Raised("ValueError")
                  ELSE [ret EXCEPT !.pc = "geocode_from",
                                   !.parts = [ship_from_city |-> from_parts[1],
                                              ship_from_state |-> from_parts[2],
                                              ship_to_city |-> to_parts[1],
                                              ship_to_state |-> to_parts[2]]]
    /\ QueryUnchanged

\* line 229
GeocodeShipFrom ==
    /\ ret.pc = "geocode_from"
    /\ \E coords \in get_coordinates(call.ship_from) :
          ret' = [ret EXCEPT !.pc = "geocode_to", !.ship_from_coords = coords,
                             !.calls = Append(@, "get_coordinates")]
    /\ QueryUnchanged

\* line 230
GeocodeShipTo ==
    /\ ret.pc = "geocode_to"
    /\ \E coords \in get_coordinates(call.ship_to) :
          ret' = [ret EXCEPT !.pc = "coordinates", !.ship_to_coords = coords,
                             !.calls = Append(@, "get_coordinates")]
    /\ QueryUnchanged

\* a check that looks at the origin only
MissingOrigin(ship_from_coords, ship_to_coords) == ship_from_coords = None

\* line 232
MissingCoordinate(ship_from_coords, ship_to_coords) ==
    ship_from_coords = None \/ ship_to_coords = None

\* lines 232-259: without a coordinate the query ends with a message; else
\* the route's history is looked up in incident_data, whose stand-in frame
\* after a failed load has no 'Ship From City' column, and the first map shown
CheckCoordinates ==
    /\ ret.pc = "coordinates"
    /\ ret' = IF MissingCoordinate(ret.ship_from_coords, ret.ship_to_coords)
              THEN Stopped(CoordinatesMessage)
              ELSE IF ~incidents.readable
              THEN Raised("KeyError")
              ELSE [ret EXCEPT !.pc = "route_risk"]
    /\ QueryUnchanged

\* lines 262-266
QueryRouteRisk ==
    /\ ret.pc = "route_risk"
    /\ LET r == calculate_route_risk(ret.parts.ship_from_city, ret.parts.ship_from_state,
                                     ret.parts.ship_to_city, ret.parts.ship_to_state,
                                     risk_ratings.route)
           called == [ret EXCEPT !.calls = Append(@, "calculate_route_risk")]
       IN  ret' = IF r.kind = "raise"
                  THEN [called EXCEPT !.pc = "raised", !.error = r.error]
                  ELSE [called EXCEPT !.pc = "liable_risk", !.route_risk = r.value[1]]
    /\ QueryUnchanged

\* lines 268-271
QueryLiablePartyRisk ==
    /\ ret.pc = "liable_risk"
    /\ LET r == calculate_liable_party_risk(call.liable_party, risk_ratings.liable)
           called == [ret EXCEPT !.calls = Append(@, "calculate_liable_party_risk")]
       IN  ret' = IF r.kind = "raise"
                  THEN [called EXCEPT !.pc = "raised", !.error = r.error]
                  ELSE [called EXCEPT !.pc = "find_scale", !.liable_risk = r.value[1]]
    /\ QueryUnchanged

\* lines 274-276
QueryFindBestCatScale ==
    /\ ret.pc = "find_scale"
    /\ LET r == find_best_cat_scale(ret.ship_from_coords, ret.ship_to_coords,
                                    ret.route_risk, StateOf(ret.parts.ship_from_state))
           called == [ret EXCEPT !.calls = Append(@, "find_best_cat_scale")]
       IN  ret' = IF r.kind = "raise"
                  THEN [called EXCEPT !.pc = "raised", !.error = r.error]
                  ELSE [called EXCEPT !.pc = "recommend", !.found = r.value]
    /\ QueryUnchanged

\* lines 279-281: detour_cost is the second component of the search's result
QueryRecommend ==
    /\ ret.pc = "recommend"
    /\ ret' = [ret EXCEPT !.pc = "display",
                          !.calls = Append(@, "get_risk_recommendation"),
                          !.recommendation =
                              get_risk_recommendation(ret.route_risk, ret.liable_risk,
                                                      ret.found[2])]
    /\ QueryUnchanged

\* lines 284-356: should_scale shows the second map, the comparison with the
\* route's history and the advice to stop at best_scale, else the advice to
\* skip.  create_route_map leaves out a scale_coords of None; line 343 hands
\* it to geodesic, which, by the geopy in use, reads it as the point (0, 0)
\* or raises.
Display ==
    /\ ret.pc = "display"
    /\ \/ /\ ret.recommendation[1]
          /\ ret' = [ret EXCEPT !.pc = "done", !.shown = StopMessage]
       \/ /\ ret.recommendation[1]
          /\ ret.found[3] = None
          /\ ret' = Raised("geodesic")
       \/ /\ ~ret.recommendation[1]
          /\ ret' = [ret EXCEPT !.pc = "done", !.shown = SkipMessage]
    /\ QueryUnchanged

InitQuery ==
    /\ cat_scales \in QueryCatalogs
    /\ risk_ratings \in QueryRatings
    /\ incidents \in QueryIncidentData
    /\ files = <<>>
    /\ pointer = ""
    /\ build = NoBuild
    /\ call \in [op : {"analyze_risk"}, ship_from : ShipFromInputs,
                 ship_to : ShipToInputs, liable_party : LiablePartyInputs]
    /\ ret = NotRun

NextQuery ==
    \/ Submit
    \/ GeocodeShipFrom
    \/ GeocodeShipTo
    \/ CheckCoordinates
    \/ QueryRouteRisk
    \/ QueryLiablePartyRisk
    \/ QueryFindBestCatScale
    \/ QueryRecommend
    \/ Display

SpecQuery == InitQuery /\ [][NextQuery]_vars

\* --- what the claims about a query speak of ---

\* geocoding has been run and has yielded no coordinate: the first two calls
\* of a query are the geocoding of the origin and of the destination
NoCoordinateYielded ==
    \/ Len(ret.calls) >= 1 /\ ret.ship_from_coords = None
    \/ Len(ret.calls) >= 2 /\ ret.ship_to_coords = None

Downstream ==
    {"calculate_route_risk", "calculate_liable_party_risk", "find_best_cat_scale",
     "get_risk_recommendation"}

\* C15: once geocoding has yielded no coordinate for the origin or for the
\* destination, the query calls none of calculate_route_risk,
\* calculate_liable_party_risk, find_best_cat_scale and
\* get_risk_recommendation, raises nothing, and stops with the message that
\* the coordinates could not be determined.
C15_NoCoordinateStopsQuery ==
    NoCoordinateYielded =>
        /\ \A i \in 1..Len(ret.calls) : ret.calls[i] \notin Downstream
        /\ ret.pc \in {"geocode_to", "coordinates", "stopped"}
        /\ ret.pc = "stopped" => ret.shown = CoordinatesMessage

\* a query stopped with the message: the origin was found, the destination not
C15_Witness ==
    /\ ret.pc = "stopped"
    /\ ret.shown = CoordinatesMessage
    /\ ret.ship_from_coords # None
    /\ ret.ship_to_coords = None

Recommended == ret.recommendation # None

\* C16: a query whose recommendation is to scale has an actual facility from
\* the search, with coordinates and a finite detour cost; a query whose
\* search reported no suitable facility never ends advising a stop at a scale.
C16_ScaleOnlyWithFacility ==
    /\ (Recommended /\ ret.recommendation[1]) =>
          ret.found[3] # None /\ ret.found[2] # Infinity
    /\ (ret.found # None /\ ret.found = NoSuitableScale) => ret.shown # StopMessage

\* what the code does: without a facility the advice to scale comes from the
\* 'High' branch alone, which does not look at the detour cost
ScaleWithoutFacilityOnlyAtHighRisk ==
    (Recommended /\ ret.recommendation[1] /\ ret.found = NoSuitableScale) =>
        ret.recommendation[2] = "High"

====
